---- MODULE Spec2Model ----
(***************************************************************************)
(* loopback-component-fixtures (src/index.js): fixture loading and         *)
(* teardown for a LoopBack application.                                    *)
(*                                                                         *)
(* Strings are sequences of one-character strings, so that split(',') and  *)
(* toLowerCase() are computed and not assumed.  A fixture's records are    *)
(* represented by their number.                                            *)
(***************************************************************************)
EXTENDS Naturals, Sequences, FiniteSets

\* ------------------------------------------------------------ bounds
\* calls of setupFixtures / teardownFixtures made by the host in one run
MaxCalls == 2
\* rewrites of a fixture file on disk in one run
MaxEdits == 1

\* ------------------------------------------------------------ names
users == <<"u", "s", "e", "r", "s">>
Ab == <<"A", "b">>
ab == <<"a", "b">>
audit == <<"a", "u", "d", "i", "t">>
comma == <<",">>

\* readdirSync lists the directory in this order
DirOrder == <<Ab, users>>
FileNames == {DirOrder[i] : i \in 1..Len(DirOrder)}
\* number of records in each fixture file as first written
Original == [f \in FileNames |-> IF f = users THEN 2 ELSE 1]
\* every model name of the hosts considered
AllModels == {users, Ab, ab, audit}
\* the keys of app.models: one host registers the model of fixture Ab under
\* that name, the other under its lowercase name
Registries == {{users, Ab, audit}, {users, ab, audit}}

\* every name a selection can produce
AllNames == FileNames \cup {ab, <<>>}
\* the comma-separated strings a caller passes as select to setupFixtures
SetupStrings == {users, users \o comma \o Ab, Ab \o comma \o users}
\* the comma-separated strings a caller passes as select to teardownFixtures
TeardownStrings == {users, Ab}
\* the lists a caller passes as select
SelectLists == {<<users>>}
\* the fixture files rewritten while the host runs
Rewritten == {users}

\* ------------------------------------------------------------ state
VARIABLES
    pc,             \* "boot" before module.exports ran, "ready" once the two
                    \* operations are installed, "crashed"
    fatal,          \* "none", "startup" (the Error of line 96), "exception"
    app,            \* the host: [settingsEnv, nodeEnv, options, models, datasources,
                    \* later]: `later` are the fixture files added while it runs
    config,         \* merge(defaults, options), line 75
    fixtureNames,   \* [isArray, list]: undefined until the first load
    cachedFixtures, \* [defined, entries]: entries[name] = 0 when absent
    dir,            \* the fixture files present in the fixtures directory
    disk,           \* the number of records of each fixture file
    edits,          \* rewrites of fixture files so far
    reads,          \* how often each fixture file was read from disk
    call,           \* the call in progress or last made: the startup load, a
                    \* setup or a teardown, with the requests it issued
    ncalls,         \* calls of the two operations made so far
    persisted       \* the number of records stored for each model

vars == <<pc, fatal, app, config, fixtureNames, cachedFixtures, dir, disk,
          edits, reads, call, ncalls, persisted>>

\* ------------------------------------------------------------ helpers
\* String.prototype.split(',')
RECURSIVE splitFrom(_, _)
splitFrom(s, cur) ==
    IF s = <<>> THEN <<cur>>
    ELSE IF Head(s) = "," THEN <<cur>> \o splitFrom(Tail(s), <<>>)
    ELSE splitFrom(Tail(s), Append(cur, Head(s)))

split(s) == splitFrom(s, <<>>)

upperToLower == [c \in {"A", "U"} |-> IF c = "A" THEN "a" ELSE "u"]

\* String.prototype.toLowerCase()
toLowerCase(s) ==
    [i \in 1..Len(s) |-> IF s[i] \in DOMAIN upperToLower THEN upperToLower[s[i]] ELSE s[i]]

RECURSIVE mapLower(_)
mapLower(names) ==
    IF names = <<>> THEN <<>> ELSE <<toLowerCase(Head(names))>> \o mapLower(Tail(names))

\* the option defaults, lines 19-24
defaults ==
    [loadFixturesOnStartup |-> FALSE, errorOnSetupFailure |-> FALSE,
     environments |-> [isArray |-> FALSE, scalar |-> "test", list |-> <<>>]]

\* merge(defaults, options): an option given replaces the default
merge(d, o) == [k \in DOMAIN d |-> IF k \in DOMAIN o THEN o[k] ELSE d[k]]

\* fs.readdirSync(fixturePath) filtered to *.json with the extension removed
createFixtureList == SelectSeq(DirOrder, LAMBDA f : f \in dir)

\* ------------------------------------------------------------ async.each
\* the join of one async.each(coll, iteratee, callback): callback runs once,
\* with the first error or after `length` successes
newJoin(n) == [length |-> n, completed |-> 0, called |-> FALSE]

\* mutant: the final callback is not guarded against a second invocation
firesOnEveryError(j, ok) == ~ok \/ j.completed + 1 = j.length

\* iteratorCallback(err): whether this completion invokes the final callback
fires(j, ok) == ~j.called /\ (~ok \/ j.completed + 1 = j.length)

\* iteratorCallback(err): the join after this completion
after(j, ok) ==
    [j EXCEPT !.completed = IF ok THEN @ + 1 ELSE @,
              !.called = @ \/ ~ok \/ j.completed + 1 = j.length]

\* ------------------------------------------------------------ loading
\* addToCache, lines 32-35: require() of a file that is not there throws
addToCache(st, name) ==
    IF name \notin dir THEN [st EXCEPT !.threw = TRUE]
    ELSE [st EXCEPT !.cache[name] = disk[name], !.reads[name] = @ + 1]

\* mutant: only the first record of the fixture is created
createFirstRecord(st, name) ==
    IF name \notin app.models THEN [st EXCEPT !.threw = TRUE]
    ELSE [st EXCEPT !.ops = Append(@, [ds |-> "", model |-> name, all |-> FALSE,
                                        recs |-> 1, st |-> "pending"])]

\* models[fixtureName].create(...), line 47: a name without a model throws
\* a TypeError before any request is issued
create(st, name) ==
    IF name \notin app.models THEN [st EXCEPT !.threw = TRUE]
    ELSE [st EXCEPT !.ops = Append(@, [ds |-> "", model |-> name, all |-> FALSE,
                                        recs |-> st.cache[name], st |-> "pending"])]

\* mutant: the file is read on every load
loadFixtureUncached(st, name) ==
    LET cached == addToCache(st, name)
    IN  IF cached.threw THEN cached ELSE create(cached, name)

\* loadFixture, lines 37-55, up to the asynchronous create
loadFixture(st, name) ==
    LET cached == IF st.cache[name] = 0 THEN addToCache(st, name) ELSE st
    IN  IF cached.threw THEN cached ELSE create(cached, name)

\* the synchronous loop of async.each(names, loadFixture, cb): an exception
\* thrown by the iteratee leaves the loop
RECURSIVE eachLoad(_, _)
eachLoad(st, names) ==
    IF names = <<>> \/ st.threw THEN st
    ELSE eachLoad(loadFixture(st, Head(names)), Tail(names))

\* loadFixtures, lines 57-71: the first load creates the cache and lists the
\* directory; `given` is FALSE when only the callback was passed
loadFixtures(given, fixtures) ==
    LET first == ~cachedFixtures.defined
        cache0 == IF first THEN [n \in AllNames |-> 0] ELSE cachedFixtures.entries
        names0 == IF first THEN [isArray |-> TRUE, list |-> createFixtureList]
                  ELSE fixtureNames
        coll == IF given THEN fixtures ELSE names0.list
        st == eachLoad([cache |-> cache0, reads |-> reads, ops |-> <<>>, threw |-> FALSE], coll)
    IN  [names |-> names0, coll |-> coll, cache |-> st.cache, reads |-> st.reads,
         ops |-> st.ops, threw |-> st.threw]

\* the record of one call: the startup load, a setup or a teardown
newCall(kind, selType, selStr, selList, coll, ops, threw, length, inner) ==
    [kind |-> kind, selType |-> selType, selStr |-> selStr, selList |-> selList,
     dirAt |-> dir, listed |-> fixtureNames.isArray, before |-> persisted[users],
     coll |-> coll, ops |-> ops, threw |-> threw, join |-> newJoin(length),
     inner |-> inner, result |-> "none", cbCount |-> 0, err |-> 0, pendingAtCb |-> 0]

noCall == newCall("none", "function", <<>>, <<>>, <<>>, <<>>, FALSE, 0, <<>>)

pendingOps(c) == {i \in 1..Len(c.ops) : c.ops[i].st = "pending"}

\* no request of the last call is outstanding
idle == pendingOps(call) = {}

\* setupCallback, lines 113-118, and the startup callback, lines 93-98
setupCallback(c, ok) ==
    IF ~ok /\ config.errorOnSetupFailure
    THEN IF c.kind = "startup" THEN "fatal" ELSE "error"
    ELSE IF c.kind = "startup" THEN "started" ELSE "setup complete"

\* the continuation of a call is invoked with `result`
deliver(c, result, byOp) ==
    [c EXCEPT !.result = result, !.cbCount = @ + 1, !.err = byOp,
              !.pendingAtCb = Cardinality(pendingOps(c))]

\* ------------------------------------------------------------ the host
\* the option objects a host passes to the component (component-config)
OptionsList ==
    << [loadFixturesOnStartup |-> FALSE],
       [loadFixturesOnStartup |-> TRUE],
       [loadFixturesOnStartup |-> TRUE, errorOnSetupFailure |-> TRUE],
       [errorOnSetupFailure |-> TRUE] >>

\* the state before the component is mounted on the host `a`
InitHost(a) ==
    /\ pc = "boot"
    /\ fatal = "none"
    /\ app = a
    /\ config = defaults
    /\ fixtureNames = [isArray |-> FALSE, list |-> <<>>]
    /\ cachedFixtures = [defined |-> FALSE, entries |-> [n \in AllNames |-> 0]]
    /\ dir = {users}
    /\ disk = Original
    /\ edits = 0
    /\ reads = [n \in AllNames |-> 0]
    /\ ncalls = 0
    /\ persisted = [m \in AllModels |-> 0]
    /\ call = noCall

\* the models attached to a data source of host `a`: all of them to "db"
Attached(a, ds) == IF ds = "db" THEN a.models ELSE {}

Init ==
    \E o \in 1..Len(OptionsList), reg \in Registries :
        InitHost([settingsEnv |-> "", nodeEnv |-> "test", options |-> OptionsList[o],
                  models |-> reg, datasources |-> <<"db">>, later |-> {Ab}])

\* ------------------------------------------------------------ init
\* lines 80-81: the host setting when it is truthy, else NODE_ENV
environmentOf(a) == IF a.settingsEnv # "" THEN a.settingsEnv ELSE a.nodeEnv

\* mutant: the index of indexOf taken as a truth value
matchIndexTruthy(environment, environments) ==
    IF environments.isArray
    THEN environments.list = <<>> \/ environments.list[1] # environment
    ELSE environment = environments.scalar

\* lines 83-85: membership for a list, equality for a scalar
match(environment, environments) ==
    IF environments.isArray
    THEN \E i \in 1..Len(environments.list) : environments.list[i] = environment
    ELSE environment = environments.scalar

\* the state after a load has run its synchronous part
loaded(r) ==
    /\ fixtureNames' = r.names
    /\ cachedFixtures' = [defined |-> TRUE, entries |-> r.cache]
    /\ reads' = r.reads

\* a setup-like call after its synchronous part: an empty collection calls
\* back at once
started(c) ==
    IF ~c.threw /\ c.join.length = 0
    THEN deliver([c EXCEPT !.join.called = TRUE], setupCallback(c, TRUE), 0)
    ELSE c

\* mutant: the two operations are installed in a matching environment only
setupInterfaceIfMatch(matched, threw) ==
    IF threw THEN "crashed" ELSE IF matched THEN "ready" ELSE "skipped"

\* setupInterface, lines 102-202, as module.exports reaches it, lines 204-207:
\* the two operations are installed whenever init returned, whatever the
\* environment
setupInterface(matched, threw) == IF threw THEN "crashed" ELSE "ready"

\* init, lines 73-100, with setupInterface: module.exports, lines 204-207
Initialize ==
    /\ pc = "boot"
    /\ config' = merge(defaults, app.options)
    /\ LET matched == match(environmentOf(app), config'.environments)
       IN  IF matched /\ config'.loadFixturesOnStartup
           THEN LET r == loadFixtures(FALSE, <<>>)
                    c == newCall("startup", "function", <<>>, <<>>, r.coll, r.ops,
                                 r.threw, Len(r.coll), <<>>)
                IN  /\ loaded(r)
                    /\ call' = started(c)
                    /\ pc' = setupInterface(matched, r.threw)
                    /\ fatal' = IF r.threw THEN "exception" ELSE fatal
           ELSE /\ pc' = setupInterface(matched, FALSE)
                /\ UNCHANGED <<fixtureNames, cachedFixtures, reads, call, fatal>>
    /\ UNCHANGED <<app, dir, disk, edits, ncalls, persisted>>

\* ------------------------------------------------------------ setup
\* the host makes one call at a time: the synchronous part of a call runs to
\* its end before anything else, and the requests of different calls share
\* no join
mayCall == pc = "ready" /\ idle /\ ncalls < MaxCalls

\* lines 119-127: what setupFixtures hands to loadFixtures
setupSelection(selType, selStr, selList) ==
    IF selType # "string" THEN [given |-> FALSE, fixtures |-> <<>>]
    ELSE [given |-> TRUE, fixtures |-> split(selStr)]

\* setupFixtures, lines 110-128, up to the asynchronous creates
setupFixtures(selType, selStr, selList) ==
    /\ mayCall
    /\ LET sel == setupSelection(selType, selStr, selList)
           r == loadFixtures(sel.given, sel.fixtures)
           c == newCall("setup", selType, selStr, selList, r.coll, r.ops, r.threw,
                        Len(r.coll), <<>>)
       IN  /\ loaded(r)
           /\ call' = started(c)
    /\ ncalls' = ncalls + 1
    /\ UNCHANGED <<pc, fatal, app, config, dir, disk, edits, persisted>>

\* the callback of create, lines 47-54, and the join of lines 67/69
CreateDone(i, ok) ==
    /\ pc = "ready"
    /\ call.kind \in {"startup", "setup"}
    /\ call.ops[i].st = "pending"
    /\ LET op == call.ops[i]
           c1 == [call EXCEPT !.ops[i].st = IF ok THEN "ok" ELSE "err",
                              !.join = after(@, ok)]
           c2 == IF fires(call.join, ok)
                 THEN deliver(c1, setupCallback(c1, ok), IF ok THEN 0 ELSE i)
                 ELSE c1
       IN  /\ call' = c2
           /\ persisted' = IF ok THEN [persisted EXCEPT ![op.model] = @ + op.recs]
                           ELSE persisted
           /\ pc' = IF c2.result = "fatal" THEN "crashed" ELSE pc
           /\ fatal' = IF c2.result = "fatal" THEN "startup" ELSE fatal
    /\ UNCHANGED <<app, config, fixtureNames, cachedFixtures, dir, disk, edits, reads,
                   ncalls>>

\* ------------------------------------------------------------ teardown
\* lines 132-139: the names teardownFixtures works on
fixturesToTeardown(selType, selStr, selList) ==
    IF selType # "string" THEN fixtureNames.list ELSE split(selStr)

\* lines 146-173: the automigrate requests issued for one data source
migrateDataSource(ds, names) ==
    IF fixtureNames.isArray
    THEN LET modelNamesBothCases == names \o mapLower(names)
         IN  [i \in 1..Len(modelNamesBothCases) |->
                 [ds |-> ds, model |-> modelNamesBothCases[i], all |-> FALSE,
                  recs |-> 0, st |-> "pending"]]
    ELSE <<[ds |-> ds, model |-> <<>>, all |-> TRUE, recs |-> 0, st |-> "pending"]>>

\* async.each(dataSourceNames, migrateDataSource, ...), line 177: the
\* requests of every data source, in the order of Object.keys
RECURSIVE eachMigrate(_, _)
eachMigrate(dss, names) ==
    IF dss = <<>> THEN <<>>
    ELSE migrateDataSource(Head(dss), names) \o eachMigrate(Tail(dss), names)

opsOf(ops, ds) == {i \in 1..Len(ops) : ops[i].ds = ds}

\* mutant: the errors of the join passed on to the caller
teardownCallbackPassesErrors(ok) == IF ok THEN "teardown complete" ELSE "error"

\* the final callback of teardown, lines 177-186: errors are logged only
teardownCallback(ok) == "teardown complete"

\* teardownFixtures, lines 130-187, up to the asynchronous automigrates; a
\* data source with nothing to migrate is done at once, and so is a host
\* without data sources
teardownFixtures(selType, selStr, selList) ==
    /\ mayCall
    /\ LET names == fixturesToTeardown(selType, selStr, selList)
           dss == app.datasources
           ops == eachMigrate(dss, names)
           dsSet == {dss[d] : d \in 1..Len(dss)}
           inner == [ds \in dsSet |->
                        LET n == Cardinality(opsOf(ops, ds))
                        IN  [length |-> n, completed |-> 0, called |-> n = 0]]
           empty == Cardinality({ds \in dsSet : inner[ds].called})
           c == newCall("teardown", selType, selStr, selList, names, ops, FALSE,
                        Len(dss), inner)
           c1 == [c EXCEPT !.join.completed = empty, !.join.called = empty = Len(dss)]
       IN  call' = IF c1.join.called THEN deliver(c1, teardownCallback(TRUE), 0) ELSE c1
    /\ ncalls' = ncalls + 1
    /\ UNCHANGED <<pc, fatal, app, config, fixtureNames, cachedFixtures, dir, disk,
                   edits, reads, persisted>>

\* the records left by a successful automigrate: of one attached model, or of
\* every model of the data source when no model is named
migrated(op) ==
    [m \in AllModels |->
        IF m \in Attached(app, op.ds) /\ (op.all \/ m = op.model) THEN 0 ELSE persisted[m]]

\* what a data source task reports to done(): the unfiltered automigrate
\* ignores its result, line 169-172
reported(op, ok) == op.all \/ ok

\* the callback of automigrate, lines 155-163 and 169-172, the join of one
\* data source, line 166, and the join of all, lines 177-186
MigrateDone(i, ok) ==
    /\ pc = "ready"
    /\ call.kind = "teardown"
    /\ call.ops[i].st = "pending"
    /\ LET op == call.ops[i]
           r == reported(op, ok)
           dsDone == fires(call.inner[op.ds], r)
           dsOk == r
           c1 == [call EXCEPT !.ops[i].st = IF ok THEN "ok" ELSE "err",
                              !.inner[op.ds] = after(@, r)]
           c2 == IF dsDone THEN [c1 EXCEPT !.join = after(@, dsOk)] ELSE c1
           c3 == IF dsDone /\ fires(call.join, dsOk)
                 THEN deliver(c2, teardownCallback(dsOk), IF dsOk THEN 0 ELSE i)
                 ELSE c2
       IN  /\ call' = c3
           /\ persisted' = IF ok THEN migrated(op) ELSE persisted
    /\ UNCHANGED <<pc, fatal, app, config, fixtureNames, cachedFixtures, dir, disk,
                   edits, reads, ncalls>>

\* ------------------------------------------------------------ the files
\* a fixture file appears in the fixtures directory (between calls: a load
\* reads the directory and the files only in its synchronous part)
AddFile(f) ==
    /\ pc # "crashed"
    /\ idle
    /\ f \in app.later \ dir
    /\ dir' = dir \cup {f}
    /\ UNCHANGED <<pc, fatal, app, config, fixtureNames, cachedFixtures, disk, edits,
                   reads, call, ncalls, persisted>>

\* a fixture file is rewritten with one more record
EditFile(f) ==
    /\ pc # "crashed"
    /\ idle
    /\ f \in dir
    /\ edits < MaxEdits
    /\ disk' = [disk EXCEPT ![f] = @ + 1]
    /\ edits' = edits + 1
    /\ UNCHANGED <<pc, fatal, app, config, fixtureNames, cachedFixtures, dir, reads,
                   call, ncalls, persisted>>

Next ==
    \/ Initialize
    \/ \E s \in SetupStrings : setupFixtures("string", s, <<>>)
    \/ \E l \in SelectLists : setupFixtures("array", <<>>, l)
    \/ setupFixtures("function", <<>>, <<>>)
    \/ \E i \in 1..Len(call.ops) : \E ok \in BOOLEAN : CreateDone(i, ok)
    \/ \E s \in TeardownStrings : teardownFixtures("string", s, <<>>)
    \/ \E l \in SelectLists : teardownFixtures("array", <<>>, l)
    \/ teardownFixtures("function", <<>>, <<>>)
    \/ \E i \in 1..Len(call.ops) : \E ok \in BOOLEAN : MigrateDone(i, ok)
    \/ \E f \in FileNames : AddFile(f)
    \/ \E f \in Rewritten : EditFile(f)

Spec == Init /\ [][Next]_vars

\* hosts with no data source, with one and with two, under default options
InitSources ==
    \E dss \in {<<>>, <<"db">>, <<"db", "mem">>} :
        InitHost([settingsEnv |-> "", nodeEnv |-> "test", options |-> OptionsList[1],
                  models |-> {users, Ab, audit}, datasources |-> dss,
                  later |-> IF dss = <<>> THEN {Ab} ELSE {}])

SpecSources == InitSources /\ [][Next]_vars

\* the environments options and the environments of the hosts considered
EnvironmentsList ==
    << [isArray |-> FALSE, scalar |-> "test", list |-> <<>>],
       [isArray |-> TRUE, scalar |-> "", list |-> <<"test", "staging">>] >>

\* hosts that load on startup, over the environment settings
InitEnv ==
    \E e \in 1..Len(EnvironmentsList), eosf \in BOOLEAN,
       env \in {<<"", "test">>, <<"", "dev">>, <<"staging", "test">>, <<"dev", "test">>} :
        InitHost([settingsEnv |-> env[1], nodeEnv |-> env[2],
                  options |-> [loadFixturesOnStartup |-> TRUE, errorOnSetupFailure |-> eosf,
                               environments |-> EnvironmentsList[e]],
                  models |-> {users, ab, audit}, datasources |-> <<"db">>,
                  later |-> {Ab}])

SpecEnv == InitEnv /\ [][Next]_vars

\* hosts that do not load on startup, with and without errorOnSetupFailure,
\* with and without a model for fixture Ab
InitLive ==
    \E o \in {1, 4}, reg \in Registries :
        InitHost([settingsEnv |-> "", nodeEnv |-> "test", options |-> OptionsList[o],
                  models |-> reg, datasources |-> <<"db">>, later |-> {Ab}])

\* every create and every automigrate eventually calls back: the callbacks of
\* lines 47-54, 155-163 and 169-172 are run by the model and the connector
SpecLive ==
    /\ InitLive
    /\ [][Next]_vars
    /\ WF_vars(\E i \in 1..Len(call.ops) : \E ok \in BOOLEAN : CreateDone(i, ok))
    /\ WF_vars(\E i \in 1..Len(call.ops) : \E ok \in BOOLEAN : MigrateDone(i, ok))

\* ------------------------------------------------------------ claims
\* what the claims speak of
issued(c) == {c.ops[i].model : i \in {j \in 1..Len(c.ops) : ~c.ops[j].all}}
elements(q) == {q[i] : i \in 1..Len(q)}
failedOps(c) == {i \in 1..Len(c.ops) : c.ops[i].st = "err"}
allOk(c) == \A i \in 1..Len(c.ops) : c.ops[i].st = "ok"
dataSources == elements(app.datasources)
hasFiles(c) == elements(c.coll) \subseteq c.dirAt

\* C1: a setup call with a list of names issues a bulk-create for the names
\* of the list and for no other fixture.
C1_ListSelectsOnly ==
    (call.kind = "setup" /\ call.selType = "array")
        => /\ issued(call) \subseteq elements(call.selList)
           /\ ~call.threw => elements(call.selList) \subseteq issued(call)

\* C2: in every state, a teardown call with the selection string s issues, on
\* every data source, an automigrate of each name of s and of its lowercase
\* form, and no automigrate of anything else.
C2_TeardownSelected ==
    (call.kind = "teardown" /\ call.selType = "string")
        => LET names == elements(split(call.selStr))
               both == names \cup {toLowerCase(n) : n \in names}
           IN  /\ \A ds \in dataSources : \A n \in both :
                    \E i \in 1..Len(call.ops) :
                        /\ call.ops[i].ds = ds
                        /\ ~call.ops[i].all
                        /\ call.ops[i].model = n
               /\ \A i \in 1..Len(call.ops) :
                    ~call.ops[i].all /\ call.ops[i].model \in both

\* C3: in every state, a teardown call without selection automigrates every
\* model of every data source.
C3_TeardownAll ==
    (call.kind = "teardown" /\ call.selType = "function")
        => \A ds \in dataSources : \A m \in Attached(app, ds) :
              \E i \in 1..Len(call.ops) :
                  /\ call.ops[i].ds = ds
                  /\ call.ops[i].all \/ call.ops[i].model = m

\* C4: a setup call without selection issues a bulk-create for every fixture
\* file in the directory at the time of the call (stated for the calls that
\* did not throw).
C4_SetupAllAtCallTime ==
    (call.kind = "setup" /\ call.selType = "function" /\ ~call.threw)
        => call.dirAt \subseteq issued(call)

\* C5: once a setup call has ended, its caller has received an error when
\* errorOnSetupFailure is set and a bulk-create of the call failed, and
\* "setup complete" in every other case (stated for the calls whose names all
\* have a fixture file).
C5_SetupResult ==
    (call.kind = "setup" /\ idle /\ hasFiles(call))
        => call.result = IF config.errorOnSetupFailure /\ failedOps(call) # {}
                         THEN "error" ELSE "setup complete"

\* C6: a teardown call never reports anything but "teardown complete", and
\* has reported it once all its automigrate calls have called back, whatever
\* the selection, the data sources and the outcomes.
C6_TeardownAlwaysComplete ==
    call.kind = "teardown"
        => /\ call.result \in {"none", "teardown complete"}
           /\ idle => call.result = "teardown complete"

\* C6 witness: two data sources, a failed automigrate, "teardown complete".
C6_Witness ==
    /\ call.kind = "teardown"
    /\ Len(app.datasources) = 2
    /\ failedOps(call) # {}
    /\ idle
    /\ call.result = "teardown complete"

\* the active environment and the environments option as the host gives them
hostEnvironment == IF app.settingsEnv = "" THEN app.nodeEnv ELSE app.settingsEnv
hostEnvironments ==
    IF "environments" \in DOMAIN app.options THEN app.options.environments
    ELSE [isArray |-> FALSE, scalar |-> "test", list |-> <<>>]
mismatch ==
    IF hostEnvironments.isArray
    THEN hostEnvironment \notin elements(hostEnvironments.list)
    ELSE hostEnvironment # hostEnvironments.scalar

\* C7: when the active environment differs from a scalar `environments` or
\* is no member of a list `environments`, initialize issues no bulk-create
\* and reads neither the directory nor a fixture file, whatever
\* loadFixturesOnStartup says.
C7_NoLoadOnMismatch ==
    (mismatch /\ pc # "boot" /\ ncalls = 0)
        => /\ call.kind = "none"
           /\ \A n \in AllNames : reads[n] = 0
           /\ ~cachedFixtures.defined
           /\ ~fixtureNames.isArray
           /\ fatal = "none"

\* C7 witness: initialize has run with loadFixturesOnStartup in an
\* environment outside the list.
C7_Witness ==
    /\ pc = "ready"
    /\ ncalls = 0
    /\ mismatch
    /\ hostEnvironments.isArray
    /\ config.loadFixturesOnStartup

\* C8: a fixture file is read from disk at most once; a bulk-create carries
\* the cached records of its name; a cache entry never changes and is never
\* removed.
C8_ReadOnce ==
    /\ [](/\ \A n \in AllNames : reads[n] <= 1
          /\ call.kind \in {"startup", "setup"}
                => \A i \in 1..Len(call.ops) :
                      call.ops[i].recs = cachedFixtures.entries[call.ops[i].model])
    /\ [][\A n \in AllNames :
            cachedFixtures.entries[n] # 0
                => cachedFixtures'.entries[n] = cachedFixtures.entries[n]]_vars

\* C8 witness: users.json was rewritten after it was cached (files change
\* only between calls), and the setup now in progress creates the cached
\* records.
C8_Witness ==
    /\ call.kind = "setup"
    /\ call.listed
    /\ ~idle
    /\ disk[users] = 3
    /\ reads[users] = 1
    /\ \E i \in 1..Len(call.ops) : call.ops[i].model = users /\ call.ops[i].recs = 2

\* C9: with users.json holding two records (never rewritten) and every create
\* and automigrate succeeding, setup("users") run to completion on an empty
\* model leaves two users records, and teardown("users") run to completion
\* leaves none.
C9_SetupThenTeardown ==
    /\ (/\ call.kind = "setup"
        /\ call.selType = "string" /\ call.selStr = users
        /\ edits = 0
        /\ call.before = 0
        /\ idle /\ allOk(call))
            => persisted[users] = 2
    /\ (/\ call.kind = "teardown"
        /\ call.selType = "string" /\ call.selStr = users
        /\ "db" \in dataSources
        /\ idle /\ allOk(call))
            => persisted[users] = 0

\* C9 witness: the teardown("users") that follows the setup has completed.
C9_Witness ==
    /\ call.kind = "teardown"
    /\ call.selType = "string" /\ call.selStr = users
    /\ call.listed
    /\ call.before = 2
    /\ idle /\ allOk(call)
    /\ persisted[users] = 0

\* C10: the process is in a fatal state only if the startup load reported a
\* failed bulk-create and errorOnSetupFailure is set.
C10_FatalOnlyOnReportedFailure ==
    fatal # "none"
        => /\ config.errorOnSetupFailure
           /\ call.kind = "startup"
           /\ failedOps(call) # {}

\* the names a setup call works on all have a model and a fixture file
hasModels(c) == elements(c.coll) \subseteq app.models
\* the failures handed to the continuation of a call
reportedFailures(c) == IF c.err = 0 THEN {} ELSE {c.err}

\* C11: a setup call with the selection string "n1,n2,..." issues a
\* bulk-create for exactly the names between the commas, each with the cached
\* records of its fixture, and for no other fixture.
C11_CommaSplitSelection ==
    (call.kind = "setup" /\ call.selType = "string")
        => /\ issued(call) = elements(split(call.selStr))
           /\ \A i \in 1..Len(call.ops) :
                 call.ops[i].recs = cachedFixtures.entries[call.ops[i].model]

\* C12: when the continuation of a setup or teardown call is invoked, no
\* bulk-create and no automigrate started by that call is still outstanding,
\* also when some of them failed.
C12_ContinuationAfterAll ==
    (call.kind \in {"setup", "teardown"} /\ call.cbCount > 0)
        => call.pendingAtCb = 0

\* C13: with errorOnSetupFailure false, a setup call that selects a name
\* without a model (every selected name having a fixture file) throws no
\* exception, and once it has ended its continuation has been invoked, once,
\* with "setup complete".
C13_MissingModelReported ==
    (/\ call.kind = "setup"
     /\ ~config.errorOnSetupFailure
     /\ hasFiles(call)
     /\ ~hasModels(call))
        => /\ ~call.threw
           /\ idle => (call.cbCount = 1 /\ call.result = "setup complete")

\* C14: a setup call over the names N issues a bulk-create for every name of
\* N whatever the outcome of the others, and the error handed to its
\* continuation holds the failure of every bulk-create that failed.
C14_CollectsAllFailures ==
    (call.kind = "setup" /\ hasFiles(call) /\ hasModels(call))
        => /\ issued(call) = elements(call.coll)
           /\ (idle /\ call.result = "error")
                 => reportedFailures(call) = failedOps(call)

\* C17: a teardown call issues at most one automigrate for a model on a data
\* source.
C17_OneMigratePerModel ==
    call.kind = "teardown"
        => \A i, j \in 1..Len(call.ops) :
              (/\ ~call.ops[i].all
               /\ call.ops[i].ds = call.ops[j].ds
               /\ call.ops[i].model = call.ops[j].model) => i = j

\* C15: in an environment that does not match, the two operations are
\* installed once the component is mounted and nothing is created or
\* migrated before the first call; a call then does what it does on any
\* host: setup issues a bulk-create for each name of its selection (the
\* directory listing of the first load when there is none), teardown an
\* automigrate on every data source.
C15_InstalledNotGated ==
    /\ (mismatch /\ pc # "boot")
          => /\ pc = "ready"
             /\ fatal = "none"
             /\ ncalls = 0 => (call.kind = "none" /\ \A m \in AllModels : persisted[m] = 0)
    /\ (call.kind = "setup" /\ ~call.threw)
          => /\ call.coll = IF call.selType = "string" THEN split(call.selStr)
                            ELSE fixtureNames.list
             /\ issued(call) = elements(call.coll)
             /\ Len(call.ops) = Len(call.coll)
    /\ call.kind = "teardown"
          => \A ds \in dataSources :
                IF call.listed
                THEN \A n \in elements(call.coll) : \A m \in {n, toLowerCase(n)} :
                        \E i \in opsOf(call.ops, ds) :
                            ~call.ops[i].all /\ call.ops[i].model = m
                ELSE \E i \in opsOf(call.ops, ds) : call.ops[i].all

\* C15 witness: on a host whose environment does not match, an explicit
\* setup stored the users records and an explicit teardown removed them.
C15_Witness ==
    /\ mismatch
    /\ config.loadFixturesOnStartup
    /\ call.kind = "teardown"
    /\ call.listed
    /\ call.before = 2
    /\ idle
    /\ persisted[users] = 0

\* a setup or teardown call whose selected names all have a model and a
\* readable fixture file
provided(c) ==
    /\ c.kind \in {"setup", "teardown"}
    /\ c.kind = "setup" => (hasFiles(c) /\ hasModels(c))

\* C16: when every create and automigrate eventually calls back and every
\* selected name has a model and a fixture file, a setup or teardown call
\* invokes its caller's callback exactly once: never twice, once by the time
\* its last request has called back, and eventually, however many requests
\* report an error.
C16_CallbackExactlyOnce ==
    /\ [](provided(call) => (call.cbCount <= 1 /\ (idle => call.cbCount = 1)))
    /\ (provided(call) /\ call.cbCount = 0) ~> (provided(call) /\ call.cbCount = 1)

\* C16 witness: both creates of a setup call reported an error and the
\* callback was invoked once.
C16_Witness ==
    /\ call.kind = "setup"
    /\ provided(call)
    /\ Cardinality(failedOps(call)) = 2
    /\ idle
    /\ call.cbCount = 1

====
